---- MODULE Spec2Model ----
(***************************************************************************)
(* A model of graphics_pipeline: the series specification index            *)
(* (series_to_disk::SeriesSpecMap) and the file resource locator           *)
(* (file_resources::IntoResources and its implementers), SeriesId::stem,   *)
(* and the start and shutdown of geckodriver and shared_http (os_setup).   *)
(***************************************************************************)
EXTENDS Integers, Sequences, FiniteSets, TLC

VARIABLES
    map,        \* SeriesSpecMap.map: BTreeMap<(DataType, Country), Vec<SeriesSpec>>
    reverse,    \* SeriesSpecMap.reverse: BTreeMap<SeriesId, (DataType, Country)>
    history,    \* the SeriesSpec values inserted so far, in the order of the calls
    fs,         \* the directories under the data root, each with its entries
    ret,        \* the last call: its name, its arguments and what it returned
    earlier,    \* the call on the followed kind before the file system last changed
    procs       \* the processes spawned on the machine, in the order of their pids

vars == <<map, reverse, history, fs, ret, earlier, procs>>

(***************************************************************************)
(* Bounds of the model.                                                    *)
(***************************************************************************)
\* The number of insert calls on one SeriesSpecMap.
MaxInserts == 3
\* The number of directories that exist under the data root.
MaxDirs == 1
\* The number of entries over all directories under the data root.
MaxEntries == 2
\* The number of processes spawned on the machine.
MaxSpawns == 3
\* The number of TagSelectors of a FilterSpec.
MaxSelectors == 2
\* The number of entries of an enumerate, exclude or require list.
MaxTerms == 2

(***************************************************************************)
(* primitives: DataType, Country, SeriesId.                                *)
(***************************************************************************)
\* enum DataType { U, Cpi, Inf }
DataTypes == {"U", "Cpi", "Inf"}

\* #[derive(Ord)] on DataType: the variants in declaration order.
DataTypeRank(d) == CASE d = "U" -> 0 [] d = "Cpi" -> 1 [] d = "Inf" -> 2

\* impl fmt::Display for DataType.
DataTypeLabel(d) == CASE d = "U" -> "u" [] d = "Cpi" -> "cpi" [] d = "Inf" -> "inf"

\* Two of the variants of countries::Country.
Countries == {"Australia", "Belgium"}

\* The order of Country: the canonical ordering of the enumeration.
CountryRank(c) == CASE c = "Australia" -> 0 [] c = "Belgium" -> 1

\* Country::as_filepath: the filesystem-safe name of a country.
CountryFilepath(c) == c

\* Series ids; "AUSURAMS" < "first" < "second" as strings.
SeriesIds == {"second", "first", "AUSURAMS"}

\* #[derive(Ord)] on SeriesId(String): the order of the underlying strings.
SeriesIdRank(i) == CASE i = "AUSURAMS" -> 0 [] i = "first" -> 1 [] i = "second" -> 2

\* str::split('_') on the strings the model gives to SeriesId::new: the pieces
\* between the underscores; a string with no underscore is its only piece.
SplitUnderscore(s) ==
    CASE s = "AUSURAMS_adj" -> <<"AUSURAMS", "adj">>
      [] s = "AUSURAMS_a" -> <<"AUSURAMS", "a">>
      [] s = "A_B" -> <<"A", "B">>
      [] s = "A_B_adj" -> <<"A", "B", "adj">>
      [] s = "A_B_a" -> <<"A", "B", "a">>
      [] s = "A_adj" -> <<"A", "adj">>
      [] s = "A_a" -> <<"A", "a">>
      [] OTHER -> <<s>>

\* stem that takes off the last piece only.
StemTrailing(series_id) ==
    LET pieces == SplitUnderscore(series_id)
    IN  IF Len(pieces) = 1 THEN series_id
        ELSE CHOOSE b \in {"AUSURAMS", "A", "A_B"} :
                SplitUnderscore(b) = SubSeq(pieces, 1, Len(pieces) - 1)

\* SeriesId::stem: the first piece of the split at '_'.
Stem(series_id) == SplitUnderscore(series_id)[1]

\* Ids of series as FRED gives them and with an underscore of their own, the
\* suffixes of transformations, and the id of a derived series:
\* <base-id>_<suffix>.
BaseIds == {"AUSURAMS", "A", "A_B"}

Suffixes == {"adj", "a"}

DerivedIds ==
    {"AUSURAMS_adj", "AUSURAMS_a", "A_adj", "A_a", "A_B_adj", "A_B_a"}

Derive(base, suffix) ==
    CHOOSE s \in DerivedIds : SplitUnderscore(s) = SplitUnderscore(base) \o <<suffix>>

(***************************************************************************)
(* series_spec::SeriesSpec and the keys of SeriesSpecMap.                  *)
(***************************************************************************)
SeriesSpecs == [data_type : DataTypes, country : Countries, series_id : SeriesIds]

Keys == DataTypes \X Countries

\* The key (series_spec.data_type, series_spec.country) of a SeriesSpec.
KeyOf(s) == <<s.data_type, s.country>>

\* #[derive(Ord)] on the tuple (DataType, Country): lexicographic.
KeyLess(k1, k2) ==
    \/ DataTypeRank(k1[1]) < DataTypeRank(k2[1])
    \/ /\ k1[1] = k2[1]
       /\ CountryRank(k1[2]) < CountryRank(k2[2])

\* The empty BTreeMap.
EmptyMap == [x \in {} |-> <<>>]

\* The sequences over S of length at most n.
SeqsUpTo(S, n) == UNION {[1..k -> S] : k \in 0..n}

\* The ids of a sequence of SeriesSpec.
IdsOf(seq) == [i \in 1..Len(seq) |-> seq[i].series_id]

(***************************************************************************)
(* series_to_disk::SeriesSpecMap.                                          *)
(***************************************************************************)
\* SeriesSpecMap::new.
New == [map |-> EmptyMap, reverse |-> EmptyMap]

\* insert with the reverse entry of an id that is present left as it is.
InsertKeepReverse(m, series_spec) ==
    LET key == KeyOf(series_spec)
        id == series_spec.series_id
    IN  [map |-> IF key \notin DOMAIN m.map
                 THEN (key :> <<series_spec>>) @@ m.map
                 ELSE [m.map EXCEPT ![key] = Append(@, series_spec)],
         reverse |-> m.reverse @@ (id :> key)]

\* insert with the bucket kept sorted by series id.
InsertSorted(m, series_spec) ==
    LET key == KeyOf(series_spec)
        id == series_spec.series_id
        old == IF key \in DOMAIN m.map THEN m.map[key] ELSE <<>>
        below == SelectSeq(old, LAMBDA s : SeriesIdRank(s.series_id) <= SeriesIdRank(id))
        above == SelectSeq(old, LAMBDA s : SeriesIdRank(s.series_id) > SeriesIdRank(id))
    IN  [map |-> (key :> (below \o <<series_spec>> \o above)) @@ m.map,
         reverse |-> (id :> key) @@ m.reverse]

\* insert that moves a record already in the bucket to the end of it.
InsertMoveToEnd(m, series_spec) ==
    LET key == KeyOf(series_spec)
        id == series_spec.series_id
        old == IF key \in DOMAIN m.map THEN m.map[key] ELSE <<>>
        rest == SelectSeq(old, LAMBDA s : s.series_id # id)
    IN  [map |-> (key :> Append(rest, series_spec)) @@ m.map,
         reverse |-> (id :> key) @@ m.reverse]

\* insert that starts the bucket of its key anew on every call.
InsertResetBucket(m, series_spec) ==
    LET key == KeyOf(series_spec)
        id == series_spec.series_id
    IN  [map |-> (key :> <<series_spec>>) @@ m.map,
         reverse |-> (id :> key) @@ m.reverse]

\* SeriesSpecMap::insert: push to the bucket of the key, creating it when the
\* key is new, and (over)write the reverse entry of the id.
Insert(m, series_spec) ==
    LET key == KeyOf(series_spec)
        id == series_spec.series_id
    IN  [map |-> IF key \notin DOMAIN m.map
                 THEN (key :> <<series_spec>>) @@ m.map
                 ELSE [m.map EXCEPT ![key] = Append(@, series_spec)],
         reverse |-> (id :> key) @@ m.reverse]

\* Iterator::find: the first element of seq with the id, as an Option
\* (<<>> is None, <<x>> is Some(x)).
RECURSIVE FindById(_, _)
FindById(seq, id) ==
    IF seq = <<>> THEN <<>>
    ELSE IF Head(seq).series_id = id THEN <<Head(seq)>>
    ELSE FindById(Tail(seq), id)

\* SeriesSpecMap::get_series_spec. "panic" is the failed unwrap of the bucket.
GetSeriesSpec(m, series_id) ==
    IF series_id \notin DOMAIN m.reverse THEN <<>>
    ELSE LET key == m.reverse[series_id]
         IN  IF key \notin DOMAIN m.map THEN <<"panic">>
             ELSE FindById(m.map[key], series_id)

\* FromIterator<SeriesSpec> for SeriesSpecMap: insert each, from new().
RECURSIVE FromIter(_)
FromIter(iter) ==
    IF iter = <<>> THEN New
    ELSE Insert(FromIter(SubSeq(iter, 1, Len(iter) - 1)), iter[Len(iter)])

\* Iteration of BTreeMap<(DataType, Country), _>: the keys in ascending order.
RECURSIVE SortKeys(_)
SortKeys(ks) ==
    IF ks = {} THEN <<>>
    ELSE LET least == CHOOSE k \in ks : \A o \in ks \ {k} : KeyLess(k, o)
         IN  <<least>> \o SortKeys(ks \ {least})

\* The buckets in the order of the first series id of each.
RECURSIVE SortByFirstId(_, _)
SortByFirstId(m, ks) ==
    IF ks = {} THEN <<>>
    ELSE LET least == CHOOSE k \in ks : \A o \in ks \ {k} :
                          \/ SeriesIdRank(m[k][1].series_id) < SeriesIdRank(m[o][1].series_id)
                          \/ /\ m[k][1].series_id = m[o][1].series_id
                             /\ KeyLess(k, o)
         IN  <<least>> \o SortByFirstId(m, ks \ {least})

IterBucketsByFirstId(m) == SortByFirstId(m.map, DOMAIN m.map)

\* for (_, series_specs) in &self.map: the bucket keys as the map yields them.
IterBuckets(m) == SortKeys(DOMAIN m.map)

\* The index held in the variables.
Index == [map |-> map, reverse |-> reverse]

(***************************************************************************)
(* Paths.  A path is a sequence of components; a component is the sequence *)
(* of the pieces of its name between dots, so that "a.csv" is              *)
(* <<"a", "csv">>, "README" is <<"README">> and ".csv" is <<"", "csv">>.   *)
(***************************************************************************)
\* A component whose name has no dot.
Comp(s) == <<s>>

\* Option: <<>> is None and <<x>> is Some(x).
None == <<>>
Some(x) == <<x>>

\* Path::extension of a file name: the part after the last dot; None when the
\* name has no dot or only a leading one.
ExtensionOfName(name) ==
    IF Len(name) = 1 THEN None
    ELSE IF Len(name) = 2 /\ name[1] = "" THEN None
    ELSE Some(name[Len(name)])

\* Path::extension: that of the final component.
Extension(path) == IF path = <<>> THEN None ELSE ExtensionOfName(path[Len(path)])

\* Path::parent.
Parent(path) == SubSeq(path, 1, Len(path) - 1)

\* Path::join of a relative path.
Join(path, rel) == path \o rel

\* Path::ends_with as a comparison of the leading components.
StartsWith(path, child) ==
    /\ Len(child) <= Len(path)
    /\ SubSeq(path, 1, Len(child)) = child

\* Path::ends_with: the components of child are the last components of path.
EndsWith(path, child) ==
    /\ Len(child) <= Len(path)
    /\ SubSeq(path, Len(path) - Len(child) + 1, Len(path)) = child

\* The data root as the callers give it, "../../shared_data", and what it
\* canonicalizes to.
DataRoot == <<Comp(".."), Comp(".."), Comp("shared_data")>>

CanonRoot == <<Comp("home"), Comp("eric"), <<"currency", "engineering">>, Comp("shared_data")>>

\* Result: Ok(val) or Err(message, arguments of the message).
Ok(v) == [ok |-> TRUE, val |-> v, msg |-> "", args |-> <<>>]
Err(m, a) == [ok |-> FALSE, val |-> <<>>, msg |-> m, args |-> a]

(***************************************************************************)
(* The file system under the data root: fs maps the directories that exist *)
(* (as paths relative to the root) to the names of their entries.          *)
(***************************************************************************)
\* The names an entry of a directory may have.
FileNames ==
    { <<"a", "csv">>, <<"b", "meta">>, <<"b", "txt">>, <<"README">>,
      <<"x", "js">>, <<"style", "css">> }

\* The (DataType, Country) pairs whose data directories are modelled.
FsKeys == {<<"U", "Australia">>}

\* The implementers of IntoResources.
DataKindTags == {"CsvRawData", "CsvTransformedData", "MetaData"}
UnitKindTags == {"PidGraphicCss", "Spec", "PidGraphicsFavIcon", "PidGraphicsJs",
                 "TSPageSpec", "TSGraphicsJs"}

Kinds ==
    {[tag |-> t, data_type |-> k[1], country |-> k[2]] : t \in DataKindTags, k \in FsKeys}
    \cup {[tag |-> t, data_type |-> "", country |-> ""] : t \in UnitKindTags}

\* The path segments a kind joins onto the data root in dir().
Segments(kind) ==
    CASE kind.tag = "PidGraphicCss" -> <<Comp("pid_graphics"), Comp("css")>>
      [] kind.tag = "CsvRawData" ->
            <<Comp("raw_data"), Comp(DataTypeLabel(kind.data_type)),
              Comp(CountryFilepath(kind.country))>>
      [] kind.tag = "CsvTransformedData" ->
            <<Comp("transformed_data"), Comp(DataTypeLabel(kind.data_type)),
              Comp(CountryFilepath(kind.country))>>
      [] kind.tag = "MetaData" ->
            <<Comp("raw_data"), Comp(DataTypeLabel(kind.data_type)),
              Comp(CountryFilepath(kind.country))>>
      [] kind.tag = "Spec" -> <<Comp("specs")>>
      [] kind.tag = "PidGraphicsFavIcon" -> <<Comp("pid_graphics"), Comp("favicon")>>
      [] kind.tag = "PidGraphicsJs" -> <<Comp("pid_graphics"), Comp("js")>>
      [] kind.tag = "TSPageSpec" -> <<Comp("ts_graphics"), Comp("spec")>>
      [] kind.tag = "TSGraphicsJs" -> <<Comp("ts_graphics"), Comp("js")>>

\* The kind value whose calls are followed across the changes of the file
\* system, the names given to it, and the record of a call on it.
DriftKind == [tag |-> "CsvRawData", data_type |-> "U", country |-> "Australia"]

DriftFiles == {<<>>, <<<<"a", "csv">>>>}

NoCall == [op |-> "none", arg |-> <<>>, result |-> <<>>]

Followed(call) ==
    /\ call.op \in {"into_resources", "has_file", "from_file", "full_path"}
    /\ call.arg.kind = DriftKind
    /\ call.arg.file \in DriftFiles

\* The directories of the kinds, relative to the data root.
Dirs == {Segments(k) : k \in Kinds}

\* Path::canonicalize of DataRoot joined with rel: the absolute path when the
\* directory exists, None when it does not.
Canonicalize(rel) ==
    IF rel \in DOMAIN fs THEN Some(Join(CanonRoot, rel)) ELSE None

\* The message of a dir() that fails: join_paths and MetaData say "Directory",
\* CsvRawData and CsvTransformedData say "File".
DirNotFoundMsg(kind) ==
    IF kind.tag \in {"CsvRawData", "CsvTransformedData"}
    THEN "File '{}' not found"
    ELSE "Directory '{}' not found"

\* IntoResources::dir (join_paths, or the join and canonicalize of the data kinds).
Dir(kind) ==
    LET path == Join(DataRoot, Segments(kind))
        canon == Canonicalize(Segments(kind))
    IN  IF canon = None THEN Err(DirNotFoundMsg(kind), <<path>>)
        ELSE Ok(canon[1])

\* The orders in which fs::read_dir may yield the entries of a directory.
ReadDirOrders(rel) ==
    IF rel \in DOMAIN fs
    THEN {s \in SeqsUpTo(fs[rel], Cardinality(fs[rel])) :
             {s[i] : i \in 1..Len(s)} = fs[rel]}
    ELSE {<<>>}

\* all_files_in_dir that keeps the listing of the earlier call on the kind.
AllFilesInDirCached(kind, listing) ==
    LET dir == Dir(kind)
        kept == IF Followed(earlier) /\ earlier.arg.kind = kind
                THEN earlier.arg.listing ELSE listing
    IN  IF ~dir.ok THEN dir
        ELSE Ok([i \in 1..Len(kept) |-> Join(dir.val, <<kept[i]>>)])

\* IntoResources::all_files_in_dir; listing is the order read_dir yields.
AllFilesInDir(kind, listing) ==
    LET dir == Dir(kind)
    IN  IF ~dir.ok THEN dir
        ELSE Ok([i \in 1..Len(listing) |-> Join(dir.val, <<listing[i]>>)])

\* Resources::filter_by_ext.
FilterByExt(resources, ext) ==
    SelectSeq(resources, LAMBDA pb : Extension(pb) # None /\ Extension(pb)[1] \in ext)

ContaminationMsg == "Directory '{}' contained a file with extension '{}'"

\* only_ext that accepts whatever the directory holds.
OnlyExtUnchecked(resources, ext) == Ok(<<>>)

\* Resources::only_ext: the first path whose extension is not in ext fails the
\* call; a path with no extension is passed over.
OnlyExt(resources, ext) ==
    LET bad == {i \in 1..Len(resources) :
                   Extension(resources[i]) # None /\ Extension(resources[i])[1] \notin ext}
    IN  IF bad = {} THEN Ok(<<>>)
        ELSE LET first == CHOOSE i \in bad : \A j \in bad : i <= j
             IN  Err(ContaminationMsg,
                     <<Parent(resources[1]), Extension(resources[first])[1]>>)

\* Allowed extensions that are, for each kind, only its own.
AllowedExtOwn(kind) ==
    CASE kind.tag = "PidGraphicsJs" -> {"js"}
      [] kind.tag = "MetaData" -> {"meta"}
      [] OTHER -> {"csv"}

\* The extensions a kind's only_ext allows, and those its filter_by_ext keeps.
AllowedExt(kind) ==
    IF kind.tag = "PidGraphicsJs" THEN {"js"} ELSE {"csv", "meta"}

KeptExt(kind) ==
    CASE kind.tag = "PidGraphicsJs" -> {"js"}
      [] kind.tag = "MetaData" -> {"meta"}
      [] OTHER -> {"csv"}

\* into_resources of CsvRawData, CsvTransformedData, MetaData and PidGraphicsJs.
IntoResourcesByExt(kind, listing) ==
    LET all == AllFilesInDir(kind, listing)
    IN  IF ~all.ok THEN all
        ELSE LET only == OnlyExt(all.val, AllowedExt(kind))
             IN  IF ~only.ok THEN only
                 ELSE Ok(FilterByExt(all.val, KeptExt(kind)))

\* The file a single-file kind names.
NamedFile(kind) ==
    IF kind.tag = "PidGraphicCss" THEN <<"style", "css">> ELSE <<"favicon", "png">>

\* into_resources of PidGraphicCss and PidGraphicsFavIcon.
IntoResourcesNamed(kind) ==
    LET dir == Dir(kind)
    IN  IF ~dir.ok THEN dir
        ELSE Ok(<<Join(dir.val, <<NamedFile(kind)>>)>>)

\* The extension Spec, TSPageSpec and TSGraphicsJs accept, and the message of
\* their bail!.
ExactExt(kind) == IF kind.tag = "TSGraphicsJs" THEN "js" ELSE "keytree"

ExactMsg(kind) ==
    IF kind.tag = "Spec" THEN "{} is not of type .keytree"
    ELSE "{} is not of type MetaData"

\* into_resources that leaves out the entries of another extension.
IntoResourcesExactSkipping(kind, listing) ==
    LET dir == Dir(kind)
    IN  IF ~dir.ok THEN dir
        ELSE Ok(SelectSeq([i \in 1..Len(listing) |-> Join(dir.val, <<listing[i]>>)],
                          LAMBDA pb : Extension(pb) = Some(ExactExt(kind))))

\* into_resources of Spec, TSPageSpec and TSGraphicsJs: the first entry whose
\* extension is not the kind's fails the call.
IntoResourcesExact(kind, listing) ==
    LET dir == Dir(kind)
    IN  IF ~dir.ok THEN dir
        ELSE LET pbs == [i \in 1..Len(listing) |-> Join(dir.val, <<listing[i]>>)]
                 bad == {i \in 1..Len(pbs) : Extension(pbs[i]) # Some(ExactExt(kind))}
             IN  IF bad = {} THEN Ok(pbs)
                 ELSE Err(ExactMsg(kind), <<pbs[CHOOSE i \in bad : \A j \in bad : i <= j]>>)

ByExtTags == {"CsvRawData", "CsvTransformedData", "MetaData", "PidGraphicsJs"}
NamedTags == {"PidGraphicCss", "PidGraphicsFavIcon"}

\* IntoResources::into_resources.
IntoResources(kind, listing) ==
    IF kind.tag \in ByExtTags THEN IntoResourcesByExt(kind, listing)
    ELSE IF kind.tag \in NamedTags THEN IntoResourcesNamed(kind)
    ELSE IntoResourcesExact(kind, listing)

\* has_file that looks the name up among all the entries of the directory.
HasFileUnvalidated(kind, listing, file) ==
    LET all == AllFilesInDir(kind, listing)
    IN  IF ~all.ok THEN all
        ELSE Ok(\E i \in 1..Len(all.val) : EndsWith(all.val[i], file))

\* IntoResources::has_file.
HasFile(kind, listing, file) ==
    LET resources == IntoResources(kind, listing)
    IN  IF ~resources.ok THEN resources
        ELSE Ok(\E i \in 1..Len(resources.val) : EndsWith(resources.val[i], file))

\* The file arguments of has_file: one component, several, and none.
FileArgs ==
    { <<<<"a", "csv">>>>, <<<<"style", "css">>>>,
      <<Comp("Australia"), <<"a", "csv">>>>, <<>> }

\* A path that exists on disk: an entry of a directory that exists.
PathExists(path) ==
    \E d \in DOMAIN fs : \E n \in fs[d] : path = CanonRoot \o d \o <<n>>

\* What a file holds, told apart by the path it is read from.
Contents(path) == <<"contents of", path>>

\* Whether fs::read_to_string can read a file that exists: it cannot when the
\* path is a directory, is not readable or is not UTF-8.
IoOutcomes == {"ok", "error"}

ReadFailedMsg == "File [{}] not found in [{}]"
FileNotFoundMsg == "File '{}' not found in '{}'"

\* from_file that looks the name up among all the entries of the directory.
FromFileUnvalidated(kind, listing, file, io) ==
    LET dir == Dir(kind)
        all == AllFilesInDir(kind, listing)
    IN  IF ~dir.ok THEN dir
        ELSE LET found == {i \in 1..Len(all.val) : EndsWith(all.val[i], file)}
             IN  IF found = {} THEN Err(FileNotFoundMsg, <<file, dir.val>>)
                 ELSE LET pb == all.val[CHOOSE i \in found : \A j \in found : i <= j]
                      IN  IF PathExists(pb) /\ io = "ok" THEN Ok(Contents(pb))
                          ELSE Err(ReadFailedMsg, <<pb, dir.val>>)

\* IntoResources::from_file: the first resource that ends with the name is
\* read; io is whether the read of a file that exists succeeds.
FromFile(kind, listing, file, io) ==
    LET dir == Dir(kind)
        resources == IntoResources(kind, listing)
    IN  IF ~dir.ok THEN dir
        ELSE IF ~resources.ok THEN resources
        ELSE LET found == {i \in 1..Len(resources.val) :
                              EndsWith(resources.val[i], file)}
             IN  IF found = {} THEN Err(FileNotFoundMsg, <<file, dir.val>>)
                 ELSE LET pb == resources.val[CHOOSE i \in found : \A j \in found : i <= j]
                      IN  IF PathExists(pb) /\ io = "ok" THEN Ok(Contents(pb))
                          ELSE Err(ReadFailedMsg, <<pb, dir.val>>)

\* A directory that exists: the root of the file system down to the data root,
\* and every directory on the way to a directory of fs.
IsDirPath(path) ==
    LET within(whole) == /\ Len(path) <= Len(whole)
                         /\ SubSeq(whole, 1, Len(path)) = path
    IN  \/ within(CanonRoot)
        \/ \E d \in DOMAIN fs : within(CanonRoot \o d)

\* Path::canonicalize of an absolute path, component by component from cur:
\* ".." steps to the parent, any other component to an entry that exists.
RECURSIVE Walk(_, _)
Walk(cur, rest) ==
    IF rest = <<>> THEN Some(cur)
    ELSE IF ~IsDirPath(cur) THEN None
    ELSE IF Head(rest) = Comp("..") THEN Walk(Parent(cur), Tail(rest))
    ELSE LET next == Append(cur, Head(rest))
         IN  IF IsDirPath(next) \/ PathExists(next) THEN Walk(next, Tail(rest))
             ELSE None

CanonicalizePath(path) == Walk(<<>>, path)

\* full_path that resolves only the names has_file finds.
FullPathDeclared(kind, file) ==
    LET dir == Dir(kind)
        has == HasFile(kind, CHOOSE l \in ReadDirOrders(Segments(kind)) : TRUE, file)
        canon == CanonicalizePath(Join(dir.val, file))
    IN  IF ~dir.ok THEN dir
        ELSE IF has.ok /\ has.val /\ canon # None THEN Ok(canon[1])
        ELSE Err(FileNotFoundMsg, <<file, dir.val>>)

\* IntoResources::full_path.
FullPath(kind, file) ==
    LET dir == Dir(kind)
    IN  IF ~dir.ok THEN dir
        ELSE LET canon == CanonicalizePath(Join(dir.val, file))
             IN  IF canon = None THEN Err(FileNotFoundMsg, <<file, dir.val>>)
                 ELSE Ok(canon[1])

\* The file arguments of from_file and full_path.
NameArgs == FileArgs \cup {<<<<"b", "meta">>>>}

\* The number of entries over all directories.
EntryCount ==
    Cardinality({<<d, n>> \in (DOMAIN fs) \X UNION {fs[d] : d \in DOMAIN fs} : n \in fs[d]})

(***************************************************************************)
(* series_to_disk: the passes over the index and the data files, which the *)
(* source keeps as commented-out methods of SeriesSpecMap.                 *)
(***************************************************************************)
\* get_series_spec fails its unwrap: the reverse entry names no bucket.
GetPanics(m, series_id) ==
    /\ series_id \in DOMAIN m.reverse
    /\ m.reverse[series_id] \notin DOMAIN m.map

\* The SeriesSpec values of the buckets of keys, one bucket after another.
RECURSIVE FlattenBuckets(_, _)
FlattenBuckets(m, keys) ==
    IF keys = <<>> THEN <<>>
    ELSE m.map[Head(keys)] \o FlattenBuckets(m, Tail(keys))

\* resume_write: the series it comes to write, in order.  The closure of
\* skip_while does not look at the bucket it is given: it asks whether the id
\* is in the index, so it passes over no bucket when the id is there (the
\* spec found has the id) and over every bucket when it is not.  The writes
\* (write_data_to_file, write_meta_to_file, not in the repository) are left
\* out.
ResumeWrite(m, series_id) ==
    LET buckets == IterBuckets(m)
        found == GetSeriesSpec(m, series_id)
    IN  IF buckets = <<>> THEN Ok(<<>>)
        ELSE IF GetPanics(m, series_id) THEN [ok |-> FALSE, val |-> <<>>,
                                              msg |-> "panic", args |-> <<>>]
        ELSE IF found = None \/ found[1].series_id # series_id THEN Ok(<<>>)
        ELSE Ok(FlattenBuckets(m, buckets))

\* The files WalkDir finds under the data root, as <<directory, name>>.
WalkedFiles == {f \in (DOMAIN fs) \X UNION {fs[d] : d \in DOMAIN fs} : f[2] \in fs[f[1]]}

\* remove_old: the paths it prints as "remove file"; the fs::remove_file of the
\* None arm is commented out.  The stem is the part of the name before the
\* first dot and the extension the part after it; a name with no dot fails
\* the unwrap of the extension.
RemoveOld(m) ==
    IF \E f \in WalkedFiles :
          \/ Len(f[2]) = 1
          \/ /\ f[2][2] \in {"csv", "meta"}
             /\ GetPanics(m, f[2][1])
    THEN [ok |-> FALSE, val |-> <<>>, msg |-> "panic", args |-> <<>>]
    ELSE LET orphans == {f \in WalkedFiles : /\ f[2][2] \in {"csv", "meta"}
                                             /\ GetSeriesSpec(m, f[2][1]) = None}
         IN  Ok({DataRoot \o f[1] \o <<f[2]>> : f \in orphans})

(***************************************************************************)
(* The state after construction, and the operations on the index.          *)
(***************************************************************************)
Init ==
    /\ map = New.map
    /\ reverse = New.reverse
    /\ history = <<>>
    /\ fs = EmptyMap
    /\ ret = [op |-> "new", arg |-> <<>>, result |-> <<>>]
    /\ earlier = NoCall
    /\ procs = <<>>

\* A call of insert.
DoInsert ==
    /\ Len(history) < MaxInserts
    /\ \E s \in SeriesSpecs :
          LET m == Insert(Index, s)
          IN  /\ map' = m.map
              /\ reverse' = m.reverse
              /\ history' = Append(history, s)
              /\ ret' = [op |-> "insert", arg |-> s, result |-> <<>>]
    /\ UNCHANGED <<fs, earlier, procs>>

\* A call of from_iter, which builds a new index.
DoFromIter ==
    /\ ret.op = "new"
    /\ \E iter \in SeqsUpTo(SeriesSpecs, MaxInserts) :
          LET m == FromIter(iter)
          IN  /\ map' = m.map
              /\ reverse' = m.reverse
              /\ history' = iter
              /\ ret' = [op |-> "from_iter", arg |-> iter, result |-> <<>>]
    /\ UNCHANGED <<fs, earlier, procs>>

\* A call of get_series_spec.
DoGetSeriesSpec ==
    /\ \E id \in SeriesIds :
          ret' = [op |-> "get_series_spec", arg |-> id,
                  result |-> GetSeriesSpec(Index, id)]
    /\ UNCHANGED <<map, reverse, history, fs, earlier, procs>>

\* A traversal of the buckets.
DoIterBuckets ==
    /\ ret' = [op |-> "iter_buckets", arg |-> <<>>, result |-> IterBuckets(Index)]
    /\ UNCHANGED <<map, reverse, history, fs, earlier, procs>>

Next ==
    \/ DoInsert
    \/ DoFromIter
    \/ DoGetSeriesSpec
    \/ DoIterBuckets

Spec == Init /\ [][Next]_vars

(***************************************************************************)
(* The index and a pass that resumes from a series id.                     *)
(***************************************************************************)
\* A call of resume_write.
DoResumeWrite ==
    /\ \E id \in SeriesIds :
          ret' = [op |-> "resume_write", arg |-> id,
                  result |-> ResumeWrite(Index, id)]
    /\ UNCHANGED <<map, reverse, history, fs, earlier, procs>>

NextResume ==
    \/ DoInsert
    \/ DoFromIter
    \/ DoResumeWrite

SpecResume == Init /\ [][NextResume]_vars

(***************************************************************************)
(* The file system changing under the program, and the calls on a kind.    *)
(***************************************************************************)
FsChanged == [op |-> "fs", arg |-> <<>>, result |-> <<>>]

\* A directory of a kind is created.
MkDir ==
    /\ Cardinality(DOMAIN fs) < MaxDirs
    /\ \E d \in Dirs \ DOMAIN fs : fs' = (d :> {}) @@ fs
    /\ ret' = FsChanged
    /\ UNCHANGED <<map, reverse, history, earlier, procs>>

\* A directory is removed with what it holds.
RmDir ==
    /\ \E d \in DOMAIN fs : fs' = [x \in DOMAIN fs \ {d} |-> fs[x]]
    /\ ret' = FsChanged
    /\ UNCHANGED <<map, reverse, history, earlier, procs>>

\* An entry appears in a directory.
CreateEntry ==
    /\ EntryCount < MaxEntries
    /\ \E d \in DOMAIN fs : \E n \in FileNames \ fs[d] :
          fs' = [fs EXCEPT ![d] = @ \cup {n}]
    /\ ret' = FsChanged
    /\ UNCHANGED <<map, reverse, history, earlier, procs>>

\* An entry is removed from a directory.
RemoveEntry ==
    /\ \E d \in DOMAIN fs : \E n \in fs[d] :
          fs' = [fs EXCEPT ![d] = @ \ {n}]
    /\ ret' = FsChanged
    /\ UNCHANGED <<map, reverse, history, earlier, procs>>

\* A call of into_resources.
DoIntoResources ==
    /\ \E kind \in Kinds : \E listing \in ReadDirOrders(Segments(kind)) :
          ret' = [op |-> "into_resources",
                  arg |-> [kind |-> kind, listing |-> listing, file |-> <<>>],
                  result |-> IntoResources(kind, listing)]
    /\ UNCHANGED <<map, reverse, history, fs, earlier, procs>>

\* A call of has_file.
DoHasFile ==
    /\ \E kind \in Kinds : \E listing \in ReadDirOrders(Segments(kind)) :
       \E file \in FileArgs :
          ret' = [op |-> "has_file",
                  arg |-> [kind |-> kind, listing |-> listing, file |-> file],
                  result |-> HasFile(kind, listing, file)]
    /\ UNCHANGED <<map, reverse, history, fs, earlier, procs>>

NextRes ==
    \/ MkDir
    \/ RmDir
    \/ CreateEntry
    \/ RemoveEntry
    \/ DoIntoResources
    \/ DoHasFile

SpecRes == Init /\ [][NextRes]_vars

(***************************************************************************)
(* The calls that read: dir, all_files_in_dir, from_file and full_path     *)
(* beside into_resources and has_file, followed in the directories of raw  *)
(* data and metadata, of the style sheet and of the specifications.        *)
(***************************************************************************)
ReadDirs ==
    { <<Comp("raw_data"), Comp("u"), Comp("Australia")>>,
      <<Comp("pid_graphics"), Comp("css")>>,
      <<Comp("specs")>> }

\* The names an entry of these directories may have.
ReadNames == {<<"a", "csv">>, <<"b", "meta">>, <<"b", "txt">>, <<"style", "css">>}

\* One of these directories is created.
MkReadDir ==
    /\ Cardinality(DOMAIN fs) < MaxDirs
    /\ \E d \in ReadDirs \ DOMAIN fs : fs' = (d :> {}) @@ fs
    /\ ret' = FsChanged
    /\ UNCHANGED <<map, reverse, history, earlier, procs>>

\* An entry appears in one of them.
CreateReadEntry ==
    /\ EntryCount < MaxEntries
    /\ \E d \in DOMAIN fs : \E n \in ReadNames \ fs[d] :
          fs' = [fs EXCEPT ![d] = @ \cup {n}]
    /\ ret' = FsChanged
    /\ UNCHANGED <<map, reverse, history, earlier, procs>>

\* A call of dir.
DoDir ==
    /\ \E kind \in Kinds :
          ret' = [op |-> "dir",
                  arg |-> [kind |-> kind, listing |-> <<>>, file |-> <<>>],
                  result |-> Dir(kind)]
    /\ UNCHANGED <<map, reverse, history, fs, earlier, procs>>

\* A call of all_files_in_dir.
DoAllFilesInDir ==
    /\ \E kind \in Kinds : \E listing \in ReadDirOrders(Segments(kind)) :
          ret' = [op |-> "all_files_in_dir",
                  arg |-> [kind |-> kind, listing |-> listing, file |-> <<>>],
                  result |-> AllFilesInDir(kind, listing)]
    /\ UNCHANGED <<map, reverse, history, fs, earlier, procs>>

\* The outcomes of the read of a call of from_file: both when the call comes
\* to read a file that exists, none to choose from when it does not.
ReadOutcomes(kind, listing, file) ==
    IF FromFile(kind, listing, file, "ok").ok THEN IoOutcomes ELSE {"ok"}

\* A call of from_file.
DoFromFile ==
    /\ \E kind \in Kinds : \E listing \in ReadDirOrders(Segments(kind)) :
       \E file \in NameArgs : \E io \in ReadOutcomes(kind, listing, file) :
          ret' = [op |-> "from_file",
                  arg |-> [kind |-> kind, listing |-> listing, file |-> file,
                           io |-> io],
                  result |-> FromFile(kind, listing, file, io)]
    /\ UNCHANGED <<map, reverse, history, fs, earlier, procs>>

\* A call of full_path.
DoFullPath ==
    /\ \E kind \in Kinds : \E file \in NameArgs :
          ret' = [op |-> "full_path",
                  arg |-> [kind |-> kind, listing |-> <<>>, file |-> file],
                  result |-> FullPath(kind, file)]
    /\ UNCHANGED <<map, reverse, history, fs, earlier, procs>>

\* remove_old with the fs::remove_file of its None arm restored.
DoRemoveOldDeleting ==
    /\ ret' = [op |-> "remove_old", arg |-> <<>>, result |-> RemoveOld(Index)]
    /\ fs' = [d \in DOMAIN fs |->
                 {n \in fs[d] : DataRoot \o d \o <<n>> \notin RemoveOld(Index).val}]
    /\ UNCHANGED <<map, reverse, history, earlier, procs>>

\* A call of remove_old.
DoRemoveOld ==
    /\ ret' = [op |-> "remove_old", arg |-> <<>>, result |-> RemoveOld(Index)]
    /\ UNCHANGED <<map, reverse, history, fs, earlier, procs>>

NextRead ==
    \/ MkReadDir
    \/ RmDir
    \/ CreateReadEntry
    \/ RemoveEntry
    \/ DoDir
    \/ DoAllFilesInDir
    \/ DoIntoResources
    \/ DoHasFile
    \/ DoFromFile
    \/ DoFullPath
    \/ DoRemoveOld

SpecRead == Init /\ [][NextRead]_vars

(***************************************************************************)
(* Calls on one kind value with the file system changing between them: the *)
(* raw data directory of DriftKind, a.csv and b.txt coming and going.      *)
(***************************************************************************)
DriftNames == {<<"a", "csv">>, <<"b", "txt">>}

\* The call to remember when the file system changes: the last one, when it
\* was a call on the followed kind.
Remembered == IF Followed(ret) THEN ret ELSE earlier

\* The directory of the kind is created.
MkDriftDir ==
    /\ Segments(DriftKind) \notin DOMAIN fs
    /\ fs' = (Segments(DriftKind) :> {}) @@ fs
    /\ ret' = FsChanged
    /\ earlier' = Remembered
    /\ UNCHANGED <<map, reverse, history, procs>>

\* The directory is removed with what it holds.
RmDriftDir ==
    /\ \E d \in DOMAIN fs : fs' = [x \in DOMAIN fs \ {d} |-> fs[x]]
    /\ ret' = FsChanged
    /\ earlier' = Remembered
    /\ UNCHANGED <<map, reverse, history, procs>>

\* A file is added to the directory.
CreateDriftEntry ==
    /\ \E d \in DOMAIN fs : \E n \in DriftNames \ fs[d] :
          fs' = [fs EXCEPT ![d] = @ \cup {n}]
    /\ ret' = FsChanged
    /\ earlier' = Remembered
    /\ UNCHANGED <<map, reverse, history, procs>>

\* A file is removed from the directory.
RemoveDriftEntry ==
    /\ \E d \in DOMAIN fs : \E n \in fs[d] :
          fs' = [fs EXCEPT ![d] = @ \ {n}]
    /\ ret' = FsChanged
    /\ earlier' = Remembered
    /\ UNCHANGED <<map, reverse, history, procs>>

NextDrift ==
    \/ MkDriftDir
    \/ RmDriftDir
    \/ CreateDriftEntry
    \/ RemoveDriftEntry
    \/ DoIntoResources
    \/ DoHasFile
    \/ DoFromFile
    \/ DoFullPath

SpecDrift == Init /\ [][NextDrift]_vars

(***************************************************************************)
(* The directories of the specifications, which hold keytree files.        *)
(***************************************************************************)
KeytreeDirs == {<<Comp("specs")>>, <<Comp("ts_graphics"), Comp("spec")>>}

\* The names an entry of these directories may have: two keytree files, a file
\* of another extension, an entry with no extension and a hidden file.
KeytreeNames ==
    { <<"f", "keytree">>, <<"g", "keytree">>, <<"a", "csv">>, <<"README">>,
      <<"", "keytree">> }

\* One of these directories is created.
MkKeytreeDir ==
    /\ Cardinality(DOMAIN fs) < MaxDirs
    /\ \E d \in KeytreeDirs \ DOMAIN fs : fs' = (d :> {}) @@ fs
    /\ ret' = FsChanged
    /\ UNCHANGED <<map, reverse, history, earlier, procs>>

\* An entry appears in one of them.
CreateKeytreeEntry ==
    /\ EntryCount < MaxEntries
    /\ \E d \in DOMAIN fs : \E n \in KeytreeNames \ fs[d] :
          fs' = [fs EXCEPT ![d] = @ \cup {n}]
    /\ ret' = FsChanged
    /\ UNCHANGED <<map, reverse, history, earlier, procs>>

NextKeytree ==
    \/ MkKeytreeDir
    \/ RmDir
    \/ CreateKeytreeEntry
    \/ RemoveEntry
    \/ DoIntoResources
    \/ DoHasFile

SpecKeytree == Init /\ [][NextKeytree]_vars

(***************************************************************************)
(* Properties of the index.                                                *)
(***************************************************************************)
\* The positions of a bucket's entries, as (key, position) pairs.
Entries == {<<k, i>> : k \in Keys, i \in 1..MaxInserts + 1}

EntriesOf(m) == {e \in Entries : e[1] \in DOMAIN m /\ e[2] <= Len(m[e[1]])}

\* The first position of id in a sequence of SeriesSpec (0 when absent).
FirstPos(seq, id) ==
    IF \E i \in 1..Len(seq) : seq[i].series_id = id
    THEN CHOOSE i \in 1..Len(seq) :
             /\ seq[i].series_id = id
             /\ \A j \in 1..(i - 1) : seq[j].series_id # id
    ELSE 0

\* The ids of a sequence of SeriesSpec, each once, in the order of their first
\* occurrence.
RECURSIVE FirstOccurrences(_)
FirstOccurrences(seq) ==
    IF seq = <<>> THEN <<>>
    ELSE LET front == SubSeq(seq, 1, Len(seq) - 1)
             id == seq[Len(seq)].series_id
         IN  IF FirstPos(front, id) # 0 THEN FirstOccurrences(front)
             ELSE Append(FirstOccurrences(front), id)

\* The bucket of a key; an absent key has the empty bucket.
Bucket(k) == IF k \in DOMAIN map THEN map[k] ELSE <<>>

\* The calls of insert with key k, in the order of the calls.
InsertedWith(k) == SelectSeq(history, LAMBDA s : KeyOf(s) = k)

\* The last spec of the history with the id (<<>> when none).
LastInserted(id) ==
    LET at == {i \in 1..Len(history) : history[i].series_id = id}
    IN  IF at = {} THEN <<>>
        ELSE <<history[CHOOSE i \in at : \A j \in at : j <= i]>>

\* C1: reverse-index consistency in every state reachable by insert calls:
\* every id in bucket(k) is mapped to k by the reverse map, and every id of the
\* reverse map is in the bucket the reverse map names.
C1_ReverseIndexConsistency ==
    /\ \A e \in EntriesOf(map) :
          LET id == map[e[1]][e[2]].series_id
          IN  id \in DOMAIN reverse /\ reverse[id] = e[1]
    /\ \A id \in DOMAIN reverse :
          /\ reverse[id] \in DOMAIN map
          /\ FirstPos(map[reverse[id]], id) # 0

\* C2 as stated: get_series_spec(s.series_id) returns Some(s) for every s that
\* was inserted.
C2_RoundTripEveryInserted ==
    ret.op = "get_series_spec" =>
        \A i \in 1..Len(history) :
            history[i].series_id = ret.arg => ret.result = <<history[i]>>

\* C2 as amended: get_series_spec(id) returns Some of the spec most recently
\* inserted with that id (s itself unless a later insert repeated s.series_id
\* with another data type or country).
C2_RoundTripLastInserted ==
    ret.op = "get_series_spec" =>
        \A i \in 1..Len(history) :
            history[i].series_id = ret.arg =>
                /\ ret.result = LastInserted(ret.arg)
                /\ (\A j \in i..Len(history) :
                        history[j].series_id = ret.arg => history[j] = history[i])
                   => ret.result = <<history[i]>>

\* C2's case: an id inserted under two keys, then looked up.
C2_Witness ==
    /\ ret.op = "get_series_spec"
    /\ Len(history) >= 2
    /\ history[1].series_id = ret.arg
    /\ history[2].series_id = ret.arg
    /\ KeyOf(history[1]) # KeyOf(history[2])
    /\ ret.result = <<history[Len(history)]>>

\* C3: insert is idempotent by identity: no series id occurs twice in the index,
\* so the number of entries over all buckets is the number of distinct ids
\* inserted.
C3_InsertIdempotent ==
    /\ \A e1, e2 \in EntriesOf(map) :
          map[e1[1]][e1[2]].series_id = map[e2[1]][e2[2]].series_id => e1 = e2
    /\ Cardinality(EntriesOf(map)) =
          Cardinality({history[i].series_id : i \in 1..Len(history)})

\* C4: every bucket lists the series inserted with its key in the order of their
\* first insertion (when no id is repeated, exactly the inserted specs in the
\* order of the calls), whether built by insert calls or by from_iter.
C4_InsertionOrder ==
    \A k \in Keys :
        /\ FirstOccurrences(Bucket(k)) = FirstOccurrences(InsertedWith(k))
        /\ (\A i, j \in 1..Len(history) :
                history[i].series_id = history[j].series_id => i = j)
           => Bucket(k) = InsertedWith(k)

\* C4's case: "second" then "first" inserted into one bucket.
C4_Witness ==
    /\ ret.op = "insert"
    /\ \E k \in DOMAIN map :
          /\ IdsOf(map[k]) = <<"second", "first">>
          /\ IdsOf(InsertedWith(k)) = <<"second", "first">>

\* C5: an insert leaves every bucket but that of the inserted spec unchanged,
\* and keeps the relative order of any two ids of its own bucket.
C5_InsertFrame ==
    [][ret'.op = "insert" =>
          LET key == KeyOf(ret'.arg)
          IN  /\ DOMAIN map' = DOMAIN map \cup {key}
              /\ \A k \in DOMAIN map \ {key} : map'[k] = map[k]
              /\ \A a, b \in SeriesIds :
                    (/\ a # b
                     /\ key \in DOMAIN map
                     /\ FirstPos(map[key], a) # 0
                     /\ FirstPos(map[key], b) # 0)
                    => /\ FirstPos(map'[key], a) # 0
                       /\ FirstPos(map'[key], b) # 0
                       /\ (FirstPos(map[key], a) < FirstPos(map[key], b))
                           <=> (FirstPos(map'[key], a) < FirstPos(map'[key], b))]_vars

\* C5's case: an insert of an id into a bucket that holds it and another id.
C5_Witness ==
    /\ ret.op = "insert"
    /\ Len(history) = 3
    /\ IdsOf(Bucket(KeyOf(ret.arg))) = <<"second", "first", "second">>

\* C6: the buckets are enumerated in ascending (DataType, Country) order, one per
\* key inserted, so an index built from the same specs in any other order
\* enumerates the same sequence of keys.
C6_BucketOrder ==
    ret.op = "iter_buckets" =>
        /\ \A i, j \in 1..Len(ret.result) :
              i < j => KeyLess(ret.result[i], ret.result[j])
        /\ {ret.result[i] : i \in 1..Len(ret.result)}
              = {KeyOf(history[i]) : i \in 1..Len(history)}
        /\ \A p \in Permutations(1..Len(history)) :
              IterBuckets(FromIter([i \in 1..Len(history) |-> history[p[i]]]))
                  = ret.result

\* C6's case: three buckets enumerated, inserted in descending order of key.
C6_Witness ==
    /\ ret.op = "iter_buckets"
    /\ Len(ret.result) = 3
    /\ KeyLess(KeyOf(history[3]), KeyOf(history[2]))
    /\ KeyLess(KeyOf(history[2]), KeyOf(history[1]))

(***************************************************************************)
(* Properties of the resource locator.                                     *)
(***************************************************************************)
\* The entries of the directory of the kind of the last call.
EntriesOfCall == fs[Segments(ret.arg.kind)]

\* A call on one of the kinds that validate with only_ext, its directory there.
ByExtCall ==
    /\ ret.op = "into_resources"
    /\ ret.arg.kind.tag \in ByExtTags
    /\ Segments(ret.arg.kind) \in DOMAIN fs

\* The extensions the kinds permit: {js} for pid_graphics/js, {csv, meta} for
\* the data and metadata directories.
Permitted(kind) == IF kind.tag = "PidGraphicsJs" THEN {"js"} ELSE {"csv", "meta"}

\* C7: on a kind that validates a set of extensions, into_resources fails with
\* the contamination error, returning no resources, whenever an entry has an
\* extension outside the permitted set, and succeeds when the extension of
\* every entry is in the set.
C7_ExtensionHomogeneity ==
    ByExtCall =>
        /\ (\E n \in EntriesOfCall :
               /\ ExtensionOfName(n) # None
               /\ ExtensionOfName(n)[1] \notin Permitted(ret.arg.kind))
           => /\ ~ret.result.ok
              /\ ret.result.msg = ContaminationMsg
              /\ ret.result.val = <<>>
        /\ (\A n \in EntriesOfCall :
               /\ ExtensionOfName(n) # None
               /\ ExtensionOfName(n)[1] \in Permitted(ret.arg.kind))
           => ret.result.ok

\* C7's case: {a.csv, b.txt} in a raw data directory fails with contamination.
C7_Witness ==
    /\ ByExtCall
    /\ ret.arg.kind.tag = "CsvRawData"
    /\ EntriesOfCall = {<<"a", "csv">>, <<"b", "txt">>}
    /\ ret.result.msg = ContaminationMsg
    /\ ret.result.args[2] = "txt"

\* C8: whenever into_resources of an only_ext kind succeeds, every entry of the
\* directory has an extension in the permitted set: an entry with no extension
\* is never dropped from a successful result.
C8_NoSilentFiltering ==
    (ByExtCall /\ ret.result.ok) =>
        \A n \in EntriesOfCall :
            /\ ExtensionOfName(n) # None
            /\ ExtensionOfName(n)[1] \in Permitted(ret.arg.kind)

\* C9 as stated: has_file(root, name) is true iff a resource's final component
\* equals name, for every name that names something, those of several
\* components included.
C9_HasFileFinalComponent ==
    (ret.op = "has_file" /\ ret.arg.file # <<>>) =>
        LET resources == IntoResources(ret.arg.kind, ret.arg.listing)
            file == ret.arg.file
        IN  /\ ret.result.ok <=> resources.ok
            /\ resources.ok =>
                  (ret.result.val <=>
                      \E i \in 1..Len(resources.val) :
                          /\ Len(file) = 1
                          /\ resources.val[i][Len(resources.val[i])] = file[1])

\* C9 as amended: has_file(root, name) is true iff the components of name are
\* the trailing components of a resource; for a name of one component, iff a
\* resource's final component equals it.
C9_HasFileTrailingComponents ==
    ret.op = "has_file" =>
        LET resources == IntoResources(ret.arg.kind, ret.arg.listing)
            file == ret.arg.file
        IN  /\ ret.result.ok <=> resources.ok
            /\ resources.ok =>
                  /\ ret.result.val <=>
                        \E i \in 1..Len(resources.val) :
                        \E k \in 0..Len(resources.val[i]) :
                            resources.val[i] = SubSeq(resources.val[i], 1, k) \o file
                  /\ Len(file) = 1 =>
                        (ret.result.val <=>
                            \E i \in 1..Len(resources.val) :
                                resources.val[i][Len(resources.val[i])] = file[1])

\* C9's case: a name of two components found at the end of a resource's path.
C9_Witness ==
    /\ ret.op = "has_file"
    /\ ret.arg.kind.tag = "CsvRawData"
    /\ ret.arg.file = <<Comp("Australia"), <<"a", "csv">>>>
    /\ ret.result.ok
    /\ ret.result.val

\* C10: every resource of a successful into_resources exists on disk, so
\* has_file(root, "style.css") on PidGraphicCss is true only when style.css is
\* in pid_graphics/css.
C10_ResourcesExist ==
    /\ (ret.op = "into_resources" /\ ret.result.ok)
       => \A i \in 1..Len(ret.result.val) : PathExists(ret.result.val[i])
    /\ (/\ ret.op = "has_file"
        /\ ret.arg.kind.tag = "PidGraphicCss"
        /\ ret.arg.file = <<<<"style", "css">>>>
        /\ ret.result.ok
        /\ ret.result.val)
       => <<"style", "css">> \in EntriesOfCall

(***************************************************************************)
(* Properties of the calls that read.                                      *)
(***************************************************************************)
\* The canonical directory of the kind of the last call.
CallDir == CanonRoot \o Segments(ret.arg.kind)

\* The resources of the kind of the last call, listed as the call listed them.
CallResources == IntoResources(ret.arg.kind, ret.arg.listing)

\* The positions of the paths whose trailing components are those of file.
TrailingMatches(paths, file) ==
    {i \in 1..Len(paths) :
        \E k \in 0..Len(paths[i]) : paths[i] = SubSeq(paths[i], 1, k) \o file}

\* The positions of the paths whose final component is the name file.
FinalMatches(paths, file) ==
    {i \in 1..Len(paths) :
        Len(file) = 1 /\ paths[i][Len(paths[i])] = file[1]}

\* C11 as stated, on the kinds whose resources are entries of their directory
\* and for a name that is not empty: from_file returns the contents of the resource whose final component is
\* the name when there is one, fails with FileNotFound(name, dir) when the
\* directory and its resources are valid and there is none, and returns the
\* contents of no file outside the resources.
C11_ReadFinalComponent ==
    (/\ ret.op = "from_file"
     /\ ret.arg.kind.tag \notin NamedTags
     /\ ret.arg.file # <<>>
     /\ CallResources.ok) =>
        LET paths == CallResources.val
            matches == FinalMatches(paths, ret.arg.file)
        IN  /\ matches # {} =>
                  \E i \in matches : ret.result = Ok(Contents(paths[i]))
            /\ matches = {} =>
                  ret.result = Err(FileNotFoundMsg, <<ret.arg.file, CallDir>>)
            /\ ret.result.ok =>
                  \E i \in 1..Len(paths) : ret.result.val = Contents(paths[i])

\* C11 as amended: from_file fails as dir and into_resources fail; otherwise
\* it reads the first resource whose trailing components are those of the
\* name, returning its contents when the read succeeds and failing with
\* "File [path] not found in [dir]" when it does not, and fails with
\* FileNotFound(name, dir), dir canonical, when no resource matches.  The
\* contents returned are those of a resource of the kind: never those of a
\* .meta file through the raw data kind.
C11_ReadFirstMatch ==
    ret.op = "from_file" =>
        LET kind == ret.arg.kind
            file == ret.arg.file
            paths == CallResources.val
            matches == TrailingMatches(paths, file)
            first == CHOOSE i \in matches : \A j \in matches : i <= j
        IN  /\ ~Dir(kind).ok => ret.result = Dir(kind)
            /\ (Dir(kind).ok /\ ~CallResources.ok) => ret.result = CallResources
            /\ (CallResources.ok /\ matches = {}) =>
                  ret.result = Err(FileNotFoundMsg, <<file, CallDir>>)
            /\ (CallResources.ok /\ matches # {}) =>
                  IF PathExists(paths[first]) /\ ret.arg.io = "ok"
                  THEN ret.result = Ok(Contents(paths[first]))
                  ELSE ret.result = Err(ReadFailedMsg, <<paths[first], CallDir>>)
            /\ (CallResources.ok /\ Len(file) = 1) =>
                  (matches # {} <=> FinalMatches(paths, file) # {})
            /\ ret.result.ok =>
                  \E n \in fs[Segments(kind)] :
                      /\ ret.result.val = Contents(CallDir \o <<n>>)
                      /\ kind.tag = "CsvRawData" => ExtensionOfName(n) = Some("csv")

\* C11's case: a.csv read through the raw data kind, b.meta beside it.
C11_Witness ==
    /\ ret.op = "from_file"
    /\ ret.arg.kind.tag = "CsvRawData"
    /\ Segments(ret.arg.kind) \in DOMAIN fs
    /\ fs[Segments(ret.arg.kind)] = {<<"a", "csv">>, <<"b", "meta">>}
    /\ ret.arg.file = <<<<"a", "csv">>>>
    /\ ret.result = Ok(Contents(CallDir \o <<<<"a", "csv">>>>))

\* The directory of the kind of the last call joined with the name exists: the
\* directory itself for the empty name, an entry for a name of one component.
JoinedExists ==
    /\ Segments(ret.arg.kind) \in DOMAIN fs
    /\ \/ ret.arg.file = <<>>
       \/ /\ Len(ret.arg.file) = 1
          /\ ret.arg.file[1] \in fs[Segments(ret.arg.kind)]

\* C12 as stated: full_path succeeds exactly when the directory resolves and
\* the directory joined with the name exists, and every failure is
\* FileNotFound(name, dir).
C12_FullPathFileNotFound ==
    ret.op = "full_path" =>
        /\ ret.result.ok <=> JoinedExists
        /\ ~ret.result.ok =>
              /\ ret.result.msg = FileNotFoundMsg
              /\ ret.result.args[1] = ret.arg.file

\* C12 as amended: full_path succeeds, with the joined path, exactly when the
\* directory resolves and the directory joined with the name exists; it fails
\* with FileNotFound(name, dir) when the directory resolves and the joined path
\* does not exist, and with the error of dir when the directory does not
\* resolve.  Whether the name is a resource of the kind plays no part.
C12_FullPathExists ==
    ret.op = "full_path" =>
        /\ ret.result.ok <=> JoinedExists
        /\ ret.result.ok => ret.result.val = CallDir \o ret.arg.file
        /\ (Segments(ret.arg.kind) \in DOMAIN fs /\ ~JoinedExists) =>
              ret.result = Err(FileNotFoundMsg, <<ret.arg.file, CallDir>>)
        /\ Segments(ret.arg.kind) \notin DOMAIN fs =>
              ret.result = Err(DirNotFoundMsg(ret.arg.kind),
                               <<DataRoot \o Segments(ret.arg.kind)>>)

\* C12's case: b.meta resolved through the raw data kind, in a directory whose
\* resources fail with contamination.
C12_Witness ==
    /\ ret.op = "full_path"
    /\ ret.arg.kind.tag = "CsvRawData"
    /\ Segments(ret.arg.kind) \in DOMAIN fs
    /\ fs[Segments(ret.arg.kind)] = {<<"b", "meta">>, <<"b", "txt">>}
    /\ ret.arg.file = <<<<"b", "meta">>>>
    /\ ret.result = Ok(CallDir \o <<<<"b", "meta">>>>)
    /\ \A l \in ReadDirOrders(Segments(ret.arg.kind)) :
          IntoResources(ret.arg.kind, l).msg = ContaminationMsg

\* The operations of a kind.
LocatorOps ==
    {"dir", "all_files_in_dir", "into_resources", "has_file", "from_file", "full_path"}

\* C13: when the data root joined with the segments of a kind does not exist,
\* dir and every other operation of the kind fail with the error "Directory
\* '<joined path>' not found": none answers an empty set, false or
\* FileNotFound.
C13_DirectoryNotFound ==
    (ret.op \in LocatorOps /\ Segments(ret.arg.kind) \notin DOMAIN fs) =>
        ret.result = Err("Directory '{}' not found",
                         <<DataRoot \o Segments(ret.arg.kind)>>)

\* The kinds that validate the extensions of their directory, and the
\* extensions each permits there.
ValidatingTags == ByExtTags \cup {"Spec", "TSPageSpec", "TSGraphicsJs"}

PermittedOf(kind) ==
    IF kind.tag \in ByExtTags THEN Permitted(kind)
    ELSE IF kind.tag = "TSGraphicsJs" THEN {"js"}
    ELSE {"keytree"}

\* The messages of the contamination errors.
ContaminationMsgs ==
    {ContaminationMsg, "{} is not of type .keytree", "{} is not of type MetaData"}

\* The directory of the kind of the last call holds an entry whose extension
\* the kind does not permit.
Contaminated ==
    /\ Segments(ret.arg.kind) \in DOMAIN fs
    /\ \E n \in fs[Segments(ret.arg.kind)] :
          /\ ExtensionOfName(n) # None
          /\ ExtensionOfName(n)[1] \notin PermittedOf(ret.arg.kind)

C15_ContaminationCarries ==
    (/\ ret.op \in LocatorOps
     /\ ~ret.result.ok
     /\ ret.result.msg \in ContaminationMsgs) =>
        LET args == ret.result.args
        IN  /\ Len(args) = 3
            /\ args[1] = CallDir
            /\ \E n \in fs[Segments(ret.arg.kind)] : ExtensionOfName(n) = Some(args[2])
            /\ args[2] \notin PermittedOf(ret.arg.kind)
            /\ args[3] = PermittedOf(ret.arg.kind)

FreshAnswer(call) ==
    LET d == Segments(DriftKind)
        dir == CanonRoot \o d
        a == <<"a", "csv">>
        entries == fs[d]
    IN  IF d \notin DOMAIN fs
        THEN Err("File '{}' not found", <<DataRoot \o d>>)
        ELSE IF call.op = "full_path"
        THEN IF call.arg.file = <<>> THEN Ok(dir)
             ELSE IF a \in entries THEN Ok(dir \o <<a>>)
             ELSE Err(FileNotFoundMsg, <<call.arg.file, dir>>)
        ELSE IF <<"b", "txt">> \in entries
        THEN Err(ContaminationMsg, <<dir, "txt">>)
        ELSE IF call.op = "into_resources"
        THEN Ok(IF a \in entries THEN <<dir \o <<a>>>> ELSE <<>>)
        ELSE IF call.op = "has_file" THEN Ok(a \in entries)
        ELSE IF a \notin entries THEN Err(FileNotFoundMsg, <<call.arg.file, dir>>)
        ELSE IF call.arg.io = "ok" THEN Ok(Contents(dir \o <<a>>))
        ELSE Err(ReadFailedMsg, <<dir \o <<a>>, dir>>)

\* C18: what into_resources, has_file, from_file and full_path return is told
\* by the file system at the moment of the call, whatever an earlier call on
\* the same kind value returned before the file system changed.
C18_NoCaching ==
    Followed(ret) => ret.result = FreshAnswer(ret)

\* C18's case: has_file of a.csv answered true, a.csv was removed, and the same
\* call now answers false.
C18_Witness ==
    /\ Followed(earlier)
    /\ earlier.op = "has_file"
    /\ earlier.arg.file = <<<<"a", "csv">>>>
    /\ earlier.result = Ok(TRUE)
    /\ ret.op = "has_file"
    /\ ret.arg.kind = earlier.arg.kind
    /\ ret.arg.file = earlier.arg.file
    /\ ret.result = Ok(FALSE)

(***************************************************************************)
(* The index beside the data files: the pass for files of no declared      *)
(* series.                                                                 *)
(***************************************************************************)
\* The directory of raw data that is walked, and the names of its files.
OrphanDir == <<Comp("raw_data"), Comp("u"), Comp("Australia")>>

OrphanNames ==
    {<<"AUSURAMS", "csv">>, <<"AUSURAMS_adj", "csv">>, <<"STRAYFILE", "csv">>,
     <<"first", "meta">>}

\* The directory is created.
MkOrphanDir ==
    /\ OrphanDir \notin DOMAIN fs
    /\ fs' = (OrphanDir :> {}) @@ fs
    /\ ret' = FsChanged
    /\ UNCHANGED <<map, reverse, history, earlier, procs>>

\* A data file appears in it.
CreateOrphanEntry ==
    /\ EntryCount < MaxEntries + 1
    /\ \E d \in DOMAIN fs : \E n \in OrphanNames \ fs[d] :
          fs' = [fs EXCEPT ![d] = @ \cup {n}]
    /\ ret' = FsChanged
    /\ UNCHANGED <<map, reverse, history, earlier, procs>>

\* A series of unemployment data is declared: insert, for the ids that have
\* data files.
DeclareSeries ==
    /\ Len(history) < MaxInserts - 1
    /\ \E s \in {x \in SeriesSpecs : /\ x.series_id \in {"AUSURAMS", "first"}
                                   /\ x.data_type = "U"} :
          LET m == Insert(Index, s)
          IN  /\ map' = m.map
              /\ reverse' = m.reverse
              /\ history' = Append(history, s)
              /\ ret' = [op |-> "insert", arg |-> s, result |-> <<>>]
    /\ UNCHANGED <<fs, earlier, procs>>

\* A call of stem, on a base id or on the id derived from it with a suffix.
DoStem ==
    /\ \E b \in BaseIds : \E x \in Suffixes \cup {""} :
          LET id == IF x = "" THEN b ELSE Derive(b, x)
          IN  ret' = [op |-> "stem", arg |-> [base |-> b, suffix |-> x, id |-> id],
                      result |-> Stem(id)]
    /\ UNCHANGED <<map, reverse, history, fs, earlier, procs>>

NextOrphans ==
    \/ DeclareSeries
    \/ MkOrphanDir
    \/ RmDir
    \/ CreateOrphanEntry
    \/ RemoveEntry
    \/ DoRemoveOld
    \/ DoStem

SpecOrphans == Init /\ [][NextOrphans]_vars

(***************************************************************************)
(* Properties of the passes over the index.                                *)
(***************************************************************************)
\* The SeriesSpec values of the index, bucket after bucket in the order of the
\* keys.
FlatIndex == FlattenBuckets(Index, IterBuckets(Index))

\* C20: for an id that is in the index, in an index that holds every id once,
\* resume_write goes on to exactly the SeriesSpec values that come strictly
\* after the id in the flattened sequence of the buckets: the rest of the
\* bucket of the id, then every later bucket, and nothing at or before the id.
C20_ResumeStrictlyAfter ==
    (/\ ret.op = "resume_write"
     /\ ret.arg \in DOMAIN reverse
     /\ \A i, j \in 1..Len(FlatIndex) :
           FlatIndex[i].series_id = FlatIndex[j].series_id => i = j) =>
        LET at == CHOOSE i \in 1..Len(FlatIndex) : FlatIndex[i].series_id = ret.arg
        IN  ret.result = Ok(SubSeq(FlatIndex, at + 1, Len(FlatIndex)))

\* C21: resume_write with an id that is not in the index fails, and its error
\* is UndefinedResumePoint carrying the id; it neither goes over the whole
\* index nor over nothing.
C21_UndefinedResumePoint ==
    (/\ ret.op = "resume_write"
     /\ ret.arg \notin DOMAIN reverse) =>
        /\ ~ret.result.ok
        /\ ret.result.msg = "UndefinedResumePoint"
        /\ ret.result.args = <<ret.arg>>

\* The data files under the root whose stem is the id of no declared series,
\* as the paths walked.
UndeclaredFiles ==
    {DataRoot \o f[1] \o <<f[2]>> :
        f \in {g \in WalkedFiles : /\ g[2][Len(g[2])] \in {"csv", "meta"}
                                   /\ Stem(g[2][1]) \notin DOMAIN reverse}}

\* C22: remove_old reports exactly the data files whose SeriesId stem is not a
\* key of the reverse map: neither the file of a declared series nor a derived
\* file whose stem is declared, and every file whose stem is undeclared.
C22_OrphansByStem ==
    (/\ ret.op = "remove_old"
     /\ ret.result.ok) =>
        ret.result.val = UndeclaredFiles

(***************************************************************************)
(* Properties of SeriesId::stem.                                           *)
(***************************************************************************)
\* C23 as stated: stem takes off the transformation suffix at the end and
\* nothing else: stem of <base>_<suffix> is the base, also for a base with an
\* underscore of its own, stem of an id without a suffix is that id, and stem
\* of a stem is the stem.
C23_StemRecoversBase ==
    ret.op = "stem" =>
        /\ ret.result = ret.arg.base
        /\ Stem(ret.result) = ret.result

\* C23 amended: stem gives the part of the id before its first underscore.
\* For a base without an underscore that is the base, with or without a
\* suffix; for any id the stem has no underscore, is the first piece of the
\* base, and is its own stem.
C23_StemFirstPiece ==
    ret.op = "stem" =>
        /\ Len(SplitUnderscore(ret.arg.base)) = 1 => ret.result = ret.arg.base
        /\ Len(SplitUnderscore(ret.result)) = 1
        /\ ret.result = SplitUnderscore(ret.arg.base)[1]
        /\ Stem(ret.result) = ret.result

\* stem was called on the id derived from a base without an underscore and
\* gave the base.
C23_Witness ==
    /\ ret.op = "stem"
    /\ ret.arg.base = "AUSURAMS"
    /\ ret.arg.suffix = "adj"
    /\ ret.arg.id = "AUSURAMS_adj"
    /\ ret.result = "AUSURAMS"

(***************************************************************************)
(* Properties of the lookup by id, in every index the inserts can build.   *)
(***************************************************************************)
\* The ids given to insert so far.
InsertedIds == {history[i].series_id : i \in 1..Len(history)}

\* C24: get_series_spec never panics and loses no id: every value of the
\* reverse map is a key of the bucket map, so the unwrap of the bucket cannot
\* fail, and the lookup gives Some (a spec with the id) for every id ever
\* inserted and None for every id never inserted.
C24_LookupTotal ==
    /\ \A id \in DOMAIN reverse : reverse[id] \in DOMAIN map
    /\ \A id \in SeriesIds :
          /\ ~GetPanics(Index, id)
          /\ id \in InsertedIds =>
                /\ Len(GetSeriesSpec(Index, id)) = 1
                /\ GetSeriesSpec(Index, id)[1].series_id = id
          /\ id \notin InsertedIds => GetSeriesSpec(Index, id) = None
    /\ ret.op = "get_series_spec" =>
          (Len(ret.result) = 1 <=> ret.arg \in InsertedIds)

\* Three inserts into one bucket, one id among them inserted before another,
\* and the earlier id looked up and found.
C24_Witness ==
    /\ ret.op = "get_series_spec"
    /\ Len(history) = MaxInserts
    /\ KeyOf(history[1]) = KeyOf(history[2])
    /\ history[1].series_id # history[2].series_id
    /\ ret.arg = history[1].series_id
    /\ Len(ret.result) = 1
    /\ ret.result[1].series_id = ret.arg

(***************************************************************************)
(* One directory of raw data read as CSV files and as metadata files.      *)
(***************************************************************************)
\* The names an entry of the directory may have.
PairNames ==
    {<<"a", "csv">>, <<"a", "meta">>, <<"b", "csv">>, <<"b", "txt">>, <<"README">>}

\* The kinds that read the directories of raw unemployment data.
PairKinds == [tag : {"CsvRawData", "MetaData"}, data_type : {"U"}, country : Countries]

\* One of their directories is created.
MkPairDir ==
    /\ Cardinality(DOMAIN fs) < MaxDirs
    /\ \E d \in {Segments(k) : k \in PairKinds} \ DOMAIN fs : fs' = (d :> {}) @@ fs
    /\ ret' = FsChanged
    /\ UNCHANGED <<map, reverse, history, earlier, procs>>

\* An entry appears in the directory.
CreatePairEntry ==
    /\ EntryCount < MaxEntries
    /\ \E d \in DOMAIN fs : \E n \in PairNames \ fs[d] :
          fs' = [fs EXCEPT ![d] = @ \cup {n}]
    /\ ret' = FsChanged
    /\ UNCHANGED <<map, reverse, history, earlier, procs>>

\* A call of dir on one of the two kinds.
DoPairDir ==
    /\ \E kind \in PairKinds :
          ret' = [op |-> "dir",
                  arg |-> [kind |-> kind, listing |-> <<>>, file |-> <<>>],
                  result |-> Dir(kind)]
    /\ UNCHANGED <<map, reverse, history, fs, earlier, procs>>

\* A call of into_resources on one of the two kinds.
DoPairIntoResources ==
    /\ \E kind \in PairKinds : \E listing \in ReadDirOrders(Segments(kind)) :
          ret' = [op |-> "into_resources",
                  arg |-> [kind |-> kind, listing |-> listing, file |-> <<>>],
                  result |-> IntoResources(kind, listing)]
    /\ UNCHANGED <<map, reverse, history, fs, earlier, procs>>

NextPair ==
    \/ MkPairDir
    \/ RmDir
    \/ CreatePairEntry
    \/ RemoveEntry
    \/ DoPairDir
    \/ DoPairIntoResources

SpecPair == Init /\ [][NextPair]_vars

\* The kind that reads the same (DataType, Country) as the other sort of file.
Twin(kind) ==
    [kind EXCEPT !.tag = IF @ = "CsvRawData" THEN "MetaData" ELSE "CsvRawData"]

\* The elements of a sequence.
Range(seq) == {seq[i] : i \in 1..Len(seq)}

\* C25: CsvRawData and MetaData of one (DataType, Country) resolve the same
\* directory raw_data/<data type>/<country>, allow the same extensions csv and
\* meta, and so succeed or fail together on whatever the directory holds; when
\* they succeed their resources are disjoint and together are the entries of
\* the directory that have an extension.
C25_PairTogether ==
    (/\ ret.op = "into_resources"
     /\ ret.arg.kind \in PairKinds) =>
        LET kind == ret.arg.kind
            twin == Twin(kind)
        IN  /\ Segments(kind) = Segments(twin)
            /\ Segments(kind) = <<Comp("raw_data"), Comp(DataTypeLabel(kind.data_type)),
                                  Comp(CountryFilepath(kind.country))>>
            /\ Dir(kind).ok = Dir(twin).ok
            /\ Dir(kind).ok => Dir(kind).val = Dir(twin).val
            /\ AllowedExt(kind) = {"csv", "meta"}
            /\ AllowedExt(twin) = {"csv", "meta"}
            /\ \A l \in ReadDirOrders(Segments(twin)) :
                  LET other == IntoResources(twin, l)
                  IN  /\ other.ok = ret.result.ok
                      /\ ret.result.ok =>
                            /\ Range(ret.result.val) \cap Range(other.val) = {}
                            /\ Range(ret.result.val) \cup Range(other.val)
                                  = {Join(Dir(kind).val, <<n>>) :
                                        n \in {x \in fs[Segments(kind)] :
                                                  ExtensionOfName(x) # None}}

\* The directory holds a.csv and a.meta; into_resources of CsvRawData gives
\* the one and that of MetaData the other.
C25_Witness ==
    /\ ret.op = "into_resources"
    /\ ret.arg.kind.tag = "CsvRawData"
    /\ Segments(ret.arg.kind) \in DOMAIN fs
    /\ fs[Segments(ret.arg.kind)] = {<<"a", "csv">>, <<"a", "meta">>}
    /\ ret.result.ok
    /\ Len(ret.result.val) = 1
    /\ Extension(ret.result.val[1]) = Some("csv")
    /\ \E l \in ReadDirOrders(Segments(ret.arg.kind)) :
          LET other == IntoResources(Twin(ret.arg.kind), l)
          IN  /\ other.ok
              /\ Len(other.val) = 1
              /\ Extension(other.val[1]) = Some("meta")

(***************************************************************************)
(* full_path given names with parent and nested components, with the       *)
(* directory of the specifications beside a directory of raw data.         *)
(***************************************************************************)
TraversalKinds == {k \in Kinds : k.tag \in {"Spec", "CsvRawData"}}

TraversalNames == {<<"f", "keytree">>, <<"a", "csv">>}

\* The file arguments: a plain name, a name through the parent into a sibling
\* directory, the parent itself, and a name through the parent back into the
\* directory of the specifications.
TraversalArgs ==
    { <<<<"f", "keytree">>>>,
      <<Comp(".."), Comp("raw_data"), Comp("u"), Comp("Australia"), <<"a", "csv">>>>,
      <<Comp("..")>>,
      <<Comp(".."), Comp("specs"), <<"f", "keytree">>>> }

\* One of the two directories is created.
MkTraversalDir ==
    /\ \E d \in {Segments(k) : k \in TraversalKinds} \ DOMAIN fs : fs' = (d :> {}) @@ fs
    /\ ret' = FsChanged
    /\ UNCHANGED <<map, reverse, history, earlier, procs>>

\* An entry appears in one of them.
CreateTraversalEntry ==
    /\ EntryCount < MaxEntries
    /\ \E d \in DOMAIN fs : \E n \in TraversalNames \ fs[d] :
          fs' = [fs EXCEPT ![d] = @ \cup {n}]
    /\ ret' = FsChanged
    /\ UNCHANGED <<map, reverse, history, earlier, procs>>

\* A call of full_path with one of the file arguments.
DoTraversalFullPath ==
    /\ \E kind \in TraversalKinds : \E file \in TraversalArgs :
          ret' = [op |-> "full_path",
                  arg |-> [kind |-> kind, listing |-> <<>>, file |-> file],
                  result |-> FullPath(kind, file)]
    /\ UNCHANGED <<map, reverse, history, fs, earlier, procs>>

NextTraversal ==
    \/ MkTraversalDir
    \/ RmDir
    \/ CreateTraversalEntry
    \/ RemoveEntry
    \/ DoTraversalFullPath

SpecTraversal == Init /\ [][NextTraversal]_vars

\* C26: a path that full_path returns is an entry directly inside the
\* directory of the kind, whatever parent or nested components the name has.
C26_FullPathConfined ==
    (/\ ret.op = "full_path"
     /\ ret.result.ok) =>
        /\ Parent(ret.result.val) = Dir(ret.arg.kind).val
        /\ PathExists(ret.result.val)

(***************************************************************************)
(* os_setup: geckodriver and shared_http as processes of the machine.      *)
(* A process is spawned "starting", and comes to listen on its port in a   *)
(* step of its own; one that finds its port taken exits.                   *)
(***************************************************************************)
GeckoPort == 4444

HttpPort == 8080

\* A command that is neither geckodriver nor shared_http and listens on 4444.
ForeignCmd == "nc"

\* A process as spawned by Command::spawn: not yet listening.
Spawned(cmd, port) == [cmd |-> cmd, port |-> port, state |-> "starting"]

\* The processes with their pids (the positions in procs).
WithPids(ps) ==
    [i \in 1..Len(ps) |-> [pid |-> i, port |-> ps[i].port, cmd |-> ps[i].cmd,
                           state |-> ps[i].state]]

\* pids_ports_cmds: (pid, port, cmd) of the listening TCP sockets, from ss -lntp.
PidsPortsCmds(ps) == SelectSeq(WithPids(ps), LAMBDA e : e.state = "listening")

\* pids_cmds: (pid, cmd) of all processes, from ps -e.
PidsCmds(ps) == SelectSeq(WithPids(ps), LAMBDA e : e.state \in {"starting", "listening"})

\* Command::new("kill").arg(pid): the process is taken to be gone when kill
\* has returned.
Kill(ps, pid) == [ps EXCEPT ![pid].state = "killed"]

\* start_geckodriver: find looks for a listener that is on 4444 and is
\* geckodriver; none found, geckodriver is spawned.
StartGeckodriver(ps) ==
    LET found == SelectSeq(PidsPortsCmds(ps),
                           LAMBDA e : e.port = GeckoPort /\ e.cmd = "geckodriver")
    IN  IF found # <<>>
        THEN IF found[1].cmd # "geckodriver"
             THEN [result |-> Err("4444 is already used by '{}'", <<found[1].cmd>>), procs |-> ps]
             ELSE [result |-> Ok(<<>>), procs |-> ps]
        ELSE [result |-> Ok(<<>>), procs |-> Append(ps, Spawned("geckodriver", GeckoPort))]

\* shutdown_geckodriver and shutdown_shared_http: kill the first process of
\* ps -e with the command.
Shutdown(ps, cmd) ==
    LET found == SelectSeq(PidsCmds(ps), LAMBDA e : e.cmd = cmd)
    IN  IF found # <<>>
        THEN [result |-> Ok(<<>>), procs |-> Kill(ps, found[1].pid)]
        ELSE [result |-> Ok(<<>>), procs |-> ps]

\* start_shared_http: resolve the root, shut down a shared_http that runs,
\* spawn shared_http.
StartSharedHttp(ps, rootFound) ==
    IF ~rootFound THEN [result |-> Err("Failed to find directory {}", <<>>), procs |-> ps]
    ELSE LET running == SelectSeq(PidsCmds(ps), LAMBDA e : e.cmd = "shared_http")
             after == IF running # <<>> THEN Shutdown(ps, "shared_http").procs ELSE ps
         IN  [result |-> Ok(<<>>), procs |-> Append(after, Spawned("shared_http", HttpPort))]

\* A call of start_geckodriver; seen is what ss showed it.
DoStartGeckodriver ==
    LET r == StartGeckodriver(procs)
    IN  /\ Len(r.procs) <= MaxSpawns
        /\ procs' = r.procs
        /\ ret' = [op |-> "start_geckodriver",
                   arg |-> [seen |-> PidsPortsCmds(procs), spawned |-> r.procs # procs],
                   result |-> r.result]
        /\ UNCHANGED <<map, reverse, history, fs, earlier>>

\* A call of shutdown_geckodriver.
DoShutdownGeckodriver ==
    LET r == Shutdown(procs, "geckodriver")
    IN  /\ procs' = r.procs
        /\ ret' = [op |-> "shutdown_geckodriver",
                   arg |-> [seen |-> PidsCmds(procs), spawned |-> FALSE],
                   result |-> r.result]
        /\ UNCHANGED <<map, reverse, history, fs, earlier>>

\* A call of start_shared_http, with a root that resolves or does not.
DoStartSharedHttp ==
    \E rootFound \in BOOLEAN :
        LET r == StartSharedHttp(procs, rootFound)
        IN  /\ Len(r.procs) <= MaxSpawns
            /\ procs' = r.procs
            /\ ret' = [op |-> "start_shared_http",
                       arg |-> [seen |-> PidsCmds(procs), spawned |-> r.procs # procs],
                       result |-> r.result]
            /\ UNCHANGED <<map, reverse, history, fs, earlier>>

\* A call of shutdown_shared_http.
DoShutdownSharedHttp ==
    LET r == Shutdown(procs, "shared_http")
    IN  /\ procs' = r.procs
        /\ ret' = [op |-> "shutdown_shared_http",
                   arg |-> [seen |-> PidsCmds(procs), spawned |-> FALSE],
                   result |-> r.result]
        /\ UNCHANGED <<map, reverse, history, fs, earlier>>

\* The machine moved on between two calls.
OsChanged == [op |-> "os", arg |-> <<>>, result |-> <<>>]

\* A process that was spawned binds its port, or exits when the port is taken.
Listen ==
    /\ \E i \in 1..Len(procs) :
          /\ procs[i].state = "starting"
          /\ procs' = [procs EXCEPT ![i].state =
                          IF \E j \in 1..Len(procs) :
                                /\ procs[j].state = "listening"
                                /\ procs[j].port = procs[i].port
                          THEN "exited" ELSE "listening"]
    /\ ret' = OsChanged
    /\ UNCHANGED <<map, reverse, history, fs, earlier>>

\* Another program starts to listen on 4444.
ForeignListens ==
    /\ Len(procs) < MaxSpawns
    /\ ~\E j \in 1..Len(procs) :
          procs[j].state = "listening" /\ procs[j].port = GeckoPort
    /\ procs' = Append(procs, [cmd |-> ForeignCmd, port |-> GeckoPort,
                               state |-> "listening"])
    /\ ret' = OsChanged
    /\ UNCHANGED <<map, reverse, history, fs, earlier>>

\* That program exits.
ForeignExits ==
    /\ \E i \in 1..Len(procs) :
          /\ procs[i].cmd = ForeignCmd
          /\ procs[i].state = "listening"
          /\ procs' = [procs EXCEPT ![i].state = "exited"]
    /\ ret' = OsChanged
    /\ UNCHANGED <<map, reverse, history, fs, earlier>>

NextOs ==
    \/ DoStartGeckodriver
    \/ DoShutdownGeckodriver
    \/ DoStartSharedHttp
    \/ DoShutdownSharedHttp
    \/ Listen
    \/ ForeignListens
    \/ ForeignExits

SpecOs == Init /\ [][NextOs]_vars

(***************************************************************************)
(* Properties of the start and shutdown of the processes.                  *)
(***************************************************************************)
\* The pids of the processes of a command that listen on a port.
ListeningOn(cmd, port) ==
    {i \in 1..Len(procs) : /\ procs[i].cmd = cmd
                           /\ procs[i].port = port
                           /\ procs[i].state = "listening"}

\* C27: start_geckodriver returns Ok, spawning geckodriver when none listens
\* on 4444 and nothing when one does, so that after any number of calls with
\* no shutdown in between at most one geckodriver process has been spawned.
C27_StartIdempotent ==
    (/\ ret.op = "start_geckodriver"
     /\ \A i \in 1..Len(procs) : procs[i].state # "killed") =>
        /\ ret.result.ok
        /\ ret.arg.spawned <=>
              ~\E k \in 1..Len(ret.arg.seen) :
                  /\ ret.arg.seen[k].port = GeckoPort
                  /\ ret.arg.seen[k].cmd = "geckodriver"
        /\ Cardinality({i \in 1..Len(procs) : procs[i].cmd = "geckodriver"}) <= 1

\* C28: when shutdown_geckodriver has returned Ok no geckodriver listens on
\* 4444, and when shutdown_shared_http has returned Ok no shared_http listens
\* on 8080, whatever calls came before.
C28_ShutdownLeavesNone ==
    /\ (ret.op = "shutdown_geckodriver" /\ ret.result.ok)
          => ListeningOn("geckodriver", GeckoPort) = {}
    /\ (ret.op = "shutdown_shared_http" /\ ret.result.ok)
          => ListeningOn("shared_http", HttpPort) = {}

\* C29: start_geckodriver called while a command other than geckodriver holds
\* port 4444 fails with "4444 is already used by '<cmd>'" and spawns nothing.
C29_PortUsedByOther ==
    (/\ ret.op = "start_geckodriver"
     /\ \E k \in 1..Len(ret.arg.seen) :
           /\ ret.arg.seen[k].port = GeckoPort
           /\ ret.arg.seen[k].cmd # "geckodriver") =>
        /\ ~ret.result.ok
        /\ ret.result.msg = "4444 is already used by '{}'"
        /\ \E k \in 1..Len(ret.arg.seen) :
              /\ ret.arg.seen[k].port = GeckoPort
              /\ ret.result.args = <<ret.arg.seen[k].cmd>>
        /\ ~ret.arg.spawned

(***************************************************************************)
(* filter_to_series: the selection of the series FRED offers for a tag.    *)
(* A title is the sequence of its words, and str::contains is taken word   *)
(* by word: a pattern is contained where its words stand together, in      *)
(* order, in the title.                                                    *)
(***************************************************************************)
Titles ==
    { <<"Adjusted", "Unemployment", "Rate">>, <<"Unemployment", "Rate">>,
      <<"Adjusted", "Unemployment">> }

\* The entries of exclude and require lists; the words of the last are in
\* two of the titles but not in this order.
Patterns == {<<"Adjusted">>, <<"Unemployment", "Rate">>, <<"Rate", "Adjusted">>}

\* fred_api::SeriesItem: id and title.
SeriesItems ==
    { [id |-> "AUSURAMS", title |-> <<"Adjusted", "Unemployment", "Rate">>],
      [id |-> "first", title |-> <<"Unemployment", "Rate">>],
      [id |-> "second", title |-> <<"Adjusted", "Unemployment">>] }

\* TagSelector, without the tags that only go into the request to FRED.
TagSelectors ==
    [country : {"Australia"}, data_type : {"U"},
     enumerate : SeqsUpTo(Titles \ {<<"Adjusted", "Unemployment">>}, MaxTerms - 1),
     exclude : SeqsUpTo(Patterns, MaxTerms),
     require : SeqsUpTo(Patterns, MaxTerms)]

\* str::contains.
Contains(title, pattern) ==
    \E start \in 1..(Len(title) + 1) :
        /\ start + Len(pattern) - 1 <= Len(title)
        /\ SubSeq(title, start, start + Len(pattern) - 1) = pattern

\* is_selected that is content with one requirement met.
IsSelectedAnyRequire(tag_selector, series_item) ==
    LET title == series_item.title
    IN  IF /\ tag_selector.enumerate # <<>>
           /\ ~\E enum_title \in Range(tag_selector.enumerate) : enum_title = title
        THEN FALSE
        ELSE IF /\ tag_selector.exclude # <<>>
                /\ \E exclusion \in Range(tag_selector.exclude) : Contains(title, exclusion)
        THEN FALSE
        ELSE IF /\ tag_selector.require # <<>>
                /\ ~\E requirement \in Range(tag_selector.require) : Contains(title, requirement)
        THEN FALSE
        ELSE TRUE

\* is_selected: the three early returns, then true.
IsSelected(tag_selector, series_item) ==
    LET title == series_item.title
    IN  IF /\ tag_selector.enumerate # <<>>
           /\ ~\E enum_title \in Range(tag_selector.enumerate) : enum_title = title
        THEN FALSE
        ELSE IF /\ tag_selector.exclude # <<>>
                /\ \E exclusion \in Range(tag_selector.exclude) : Contains(title, exclusion)
        THEN FALSE
        ELSE IF /\ tag_selector.require # <<>>
                /\ \E requirement \in Range(tag_selector.require) : ~Contains(title, requirement)
        THEN FALSE
        ELSE TRUE

\* The SeriesSpec values pushed for the items of one TagSelector.
RECURSIVE PushSelected(_, _)
PushSelected(tag_selector, series_items) ==
    IF series_items = <<>> THEN <<>>
    ELSE LET series_item == Head(series_items)
             rest == PushSelected(tag_selector, Tail(series_items))
         IN  IF IsSelected(tag_selector, series_item)
             THEN <<[data_type |-> tag_selector.data_type,
                     country |-> tag_selector.country,
                     series_id |-> series_item.id]>> \o rest
             ELSE rest

\* series_spec_from_filter_spec from the parsed FilterSpec on: responses[k] is
\* what FredClient::tags_series answers for the k-th TagSelector; a request
\* that fails ends the call.
RECURSIVE SeriesSpecFromFilterSpec(_, _, _)
SeriesSpecFromFilterSpec(filter_spec, responses, acc) ==
    IF filter_spec = <<>> THEN Ok(acc)
    ELSE IF ~Head(responses).ok THEN Err("FredClient::tags_series failed", <<>>)
    ELSE SeriesSpecFromFilterSpec(Tail(filter_spec), Tail(responses),
            acc \o PushSelected(Head(filter_spec), Head(responses).seriess))

\* The TagSelectors of the FilterSpecs and the answers of FRED.
FilterSelectors ==
    {t \in TagSelectors : /\ t.enumerate = <<>>
                          /\ Len(t.exclude) <= 1
                          /\ t.require \in {<<>>, <<<<"Unemployment", "Rate">>>>}}

Responses ==
    { [ok |-> FALSE, seriess |-> <<>>],
      [ok |-> TRUE, seriess |-> <<>>],
      [ok |-> TRUE, seriess |-> <<[id |-> "first", title |-> <<"Unemployment", "Rate">>],
                                  [id |-> "AUSURAMS",
                                   title |-> <<"Adjusted", "Unemployment", "Rate">>]>>],
      [ok |-> TRUE, seriess |-> <<[id |-> "second", title |-> <<"Adjusted", "Unemployment">>],
                                  [id |-> "AUSURAMS",
                                   title |-> <<"Adjusted", "Unemployment", "Rate">>],
                                  [id |-> "first", title |-> <<"Unemployment", "Rate">>]>>] }

\* The arguments of the calls: of is_selected, and of
\* series_spec_from_filter_spec with the answers FRED gives to it.
FilterInputs ==
    [tag_selector : TagSelectors, series_item : SeriesItems]
    \cup UNION {[filter_spec : [1..n -> FilterSelectors], responses : [1..n -> Responses]] :
                  n \in 0..MaxSelectors}

\* Before a call: its arguments are given.
InitFilter ==
    /\ map = New.map
    /\ reverse = New.reverse
    /\ history = <<>>
    /\ fs = EmptyMap
    /\ earlier = NoCall
    /\ procs = <<>>
    /\ ret \in {[op |-> "input", arg |-> a, result |-> <<>>] : a \in FilterInputs}

\* The call of is_selected.
DoIsSelected ==
    /\ ret.op = "input"
    /\ "series_item" \in DOMAIN ret.arg
    /\ ret' = [op |-> "is_selected", arg |-> ret.arg,
               result |-> IsSelected(ret.arg.tag_selector, ret.arg.series_item)]
    /\ UNCHANGED <<map, reverse, history, fs, earlier, procs>>

\* The call of series_spec_from_filter_spec.
DoSeriesSpecFromFilterSpec ==
    /\ ret.op = "input"
    /\ "filter_spec" \in DOMAIN ret.arg
    /\ ret' = [op |-> "series_spec_from_filter_spec", arg |-> ret.arg,
               result |-> SeriesSpecFromFilterSpec(ret.arg.filter_spec,
                                                   ret.arg.responses, <<>>)]
    /\ UNCHANGED <<map, reverse, history, fs, earlier, procs>>

NextFilter ==
    \/ DoIsSelected
    \/ DoSeriesSpecFromFilterSpec

SpecFilter == InitFilter /\ [][NextFilter]_vars

(***************************************************************************)
(* Properties of the selection.                                            *)
(***************************************************************************)
\* The three conditions on the title of an item.
Selected(tag_selector, series_item) ==
    /\ \/ Len(tag_selector.enumerate) = 0
       \/ series_item.title \in Range(tag_selector.enumerate)
    /\ \A e \in Range(tag_selector.exclude) : ~Contains(series_item.title, e)
    /\ \A r \in Range(tag_selector.require) : Contains(series_item.title, r)

\* The places <<selector, item>> of the answers of a call whose item is
\* selected, and their order: selector by selector, within one in the order
\* of the answer.
SelectedPlaces(filter_spec, responses) ==
    {pl \in (1..Len(filter_spec)) \X (1..3) :
        /\ pl[2] <= Len(responses[pl[1]].seriess)
        /\ Selected(filter_spec[pl[1]], responses[pl[1]].seriess[pl[2]])}

PlaceBefore(p, q) == p[1] < q[1] \/ (p[1] = q[1] /\ p[2] < q[2])

\* C30: is_selected is true exactly when the enumerate list is empty or
\* holds the title, no entry of exclude is contained in the title and every
\* entry of require is; and series_spec_from_filter_spec gives one SeriesSpec
\* for each selected item and none else, in the order of the selectors and,
\* within a selector, of the answer of the provider.
C30_SelectedExactly ==
    /\ ret.op = "is_selected" =>
          (ret.result <=> Selected(ret.arg.tag_selector, ret.arg.series_item))
    /\ (ret.op = "series_spec_from_filter_spec" /\ ret.result.ok) =>
          LET filter_spec == ret.arg.filter_spec
              responses == ret.arg.responses
              places == SelectedPlaces(filter_spec, responses)
          IN  /\ Len(ret.result.val) = Cardinality(places)
              /\ \A pl \in places :
                    LET n == Cardinality({q \in places : PlaceBefore(q, pl)}) + 1
                    IN  ret.result.val[n] =
                           [data_type |-> filter_spec[pl[1]].data_type,
                            country |-> filter_spec[pl[1]].country,
                            series_id |-> responses[pl[1]].seriess[pl[2]].id]

\* A FilterSpec of two TagSelectors, the first of which drops an item that
\* the second keeps, so that the series given come from both.
C30_Witness ==
    /\ ret.op = "series_spec_from_filter_spec"
    /\ ret.result.ok
    /\ Len(ret.arg.filter_spec) = 2
    /\ Len(ret.arg.responses[1].seriess) = 3
    /\ ret.arg.responses[2] = ret.arg.responses[1]
    /\ IdsOf(ret.result.val) = <<"first", "second", "AUSURAMS", "first">>

====
